---- MODULE Spec2Model ----
(***************************************************************************)
(* A model of the Bybit exchange adapter (bybit.py): market-type           *)
(* resolution, request signing, position reconciliation, order            *)
(* translation, cancellation, tick ingestion and position-side inference.  *)
(*                                                                         *)
(* Python strings on which the code works character by character          *)
(* (endswith, lower, upper, `in`, float()) are sequences of one-character  *)
(* strings.  Keys, endpoints and other opaque tokens are TLA+ strings.     *)
(* Python dicts are functions, Python lists are sequences.  Numbers the    *)
(* vendor sends as JSON numbers are integers; float(x) of such a number    *)
(* is the same number.                                                     *)
(***************************************************************************)
EXTENDS Integers, Sequences, FiniteSets, TLC

VARIABLES
    symbol,       \* self.symbol
    hedge_mode,   \* self.hedge_mode
    market_type,  \* self.market_type
    inverse,      \* self.inverse
    endpoints,    \* self.endpoints
    coin,         \* self.coin
    quot,         \* self.quot
    clock,        \* time() in milliseconds
    pc,           \* "new" | "idle" | "fetching" | "returned"
    fetch,        \* the fetch_position call in flight: its dicts and its two tasks
    last          \* the last completed operation: its inputs, requests and outcome

vars == <<symbol, hedge_mode, market_type, inverse, endpoints, coin, quot,
          clock, pc, fetch, last>>

-----------------------------------------------------------------------------
(* Bounds of the model *)

MaxClock == 1
MaxOrders == 1
MaxBatch == 2
MaxSize == 1
MaxPrice == 1
MaxBalance == 1
MaxRand == 1

-----------------------------------------------------------------------------
(* Character strings *)

UpperChars == <<"A","B","C","D","E","F","G","H","I","J","K","L","M",
                "N","O","P","Q","R","S","T","U","V","W","X","Y","Z">>
LowerChars == <<"a","b","c","d","e","f","g","h","i","j","k","l","m",
                "n","o","p","q","r","s","t","u","v","w","x","y","z">>

\* str.lower() on one character
LowerChar(c) ==
    IF \E i \in 1..Len(UpperChars) : UpperChars[i] = c
    THEN LowerChars[CHOOSE i \in 1..Len(UpperChars) : UpperChars[i] = c]
    ELSE c

\* str.upper() on one character
UpperChar(c) ==
    IF \E i \in 1..Len(LowerChars) : LowerChars[i] = c
    THEN UpperChars[CHOOSE i \in 1..Len(LowerChars) : LowerChars[i] = c]
    ELSE c

lower(s) == [i \in 1..Len(s) |-> LowerChar(s[i])]

\* s.endswith(suf)
endswith(s, suf) ==
    /\ Len(s) >= Len(suf)
    /\ SubSeq(s, Len(s) - Len(suf) + 1, Len(s)) = suf

\* sub in s
Contains(s, sub) ==
    \E i \in 1..(Len(s) - Len(sub) + 1) : SubSeq(s, i, i + Len(sub) - 1) = sub

DigitChars == <<"0","1","2","3","4","5","6","7","8","9">>

\* str(n) of a one-digit number
DigitStr(n) == <<DigitChars[n + 1]>>

S_USDT == <<"U","S","D","T">>
S_USD == <<"U","S","D">>
S_buy == <<"b","u","y">>
S_sell == <<"s","e","l","l">>
S_Buy == <<"B","u","y">>
S_Sell == <<"S","e","l","l">>
S_None == <<"N","o","n","e">>
S_entry == <<"e","n","t","r","y">>
S_close == <<"c","l","o","s","e">>
S_Limit == <<"L","i","m","i","t">>
S_Market == <<"M","a","r","k","e","t">>

\* The symbols the adapter is constructed with
Symbols ==
    { <<"B","T","C">> \o S_USDT,
      <<"B","T","C">> \o S_USD,
      <<"B","T","C">> \o S_USD \o <<"Z","2","1">>,
      S_USDT \o S_USD,
      <<"S","D">> }

-----------------------------------------------------------------------------
(* Market type and endpoints *)

EmptyDict == [k \in {} |-> ""]

\* d[k] = v on a dict
DictSet(d, k, v) == [x \in DOMAIN d \cup {k} |-> IF x = k THEN v ELSE d[x]]

LinearEndpoints ==
    [position |-> "/private/linear/position/list",
     open_orders |-> "/private/linear/order/search",
     create_order |-> "/private/linear/order/create",
     cancel_order |-> "/private/linear/order/cancel",
     ticks |-> "/public/linear/recent-trading-records",
     websocket |-> "wss://stream.bybit.com/realtime_public",
     created_at_key |-> "created_time"]

InversePerpetualEndpoints ==
    [position |-> "/v2/private/position/list",
     open_orders |-> "/v2/private/order",
     create_order |-> "/v2/private/order/create",
     cancel_order |-> "/v2/private/order/cancel",
     ticks |-> "/v2/public/trading-records",
     websocket |-> "wss://stream.bybit.com/realtime",
     created_at_key |-> "created_at"]

InverseFuturesEndpoints ==
    [position |-> "/futures/private/position/list",
     open_orders |-> "/futures/private/order",
     create_order |-> "/futures/private/order/create",
     cancel_order |-> "/futures/private/order/cancel",
     ticks |-> "/v2/public/trading-records",
     websocket |-> "wss://stream.bybit.com/realtime",
     created_at_key |-> "created_at"]

\* A plausible slip: the quote currency is looked for anywhere in the symbol
ResolveMarketTypeAnywhere(sym) ==
    IF Contains(sym, S_USDT) THEN "linear_perpetual"
    ELSE IF Contains(sym, S_USD) THEN "inverse_perpetual"
    ELSE "inverse_futures"

\* The branch init_market_type takes
ResolveMarketType(sym) ==
    IF endswith(sym, S_USDT) THEN "linear_perpetual"
    ELSE IF endswith(sym, S_USD) THEN "inverse_perpetual"
    ELSE "inverse_futures"

\* self.endpoints after init_market_type
EndpointsOf(mt) ==
    DictSet(CASE mt = "linear_perpetual" -> LinearEndpoints
              [] mt = "inverse_perpetual" -> InversePerpetualEndpoints
              [] OTHER -> InverseFuturesEndpoints,
            "balance", "/v2/private/wallet/balance")

\* base_currency and quote_currency of the vendor's symbol record
VendorSymbolInfo(sym) ==
    [base_currency |-> "BTC",
     quote_currency |-> IF endswith(sym, S_USDT) THEN "USDT" ELSE "USD"]

-----------------------------------------------------------------------------
(* Request signing: private_ *)

ApiKey == <<"k">>
Secret == <<"s">>

\* Parameter values carry their Python type
StrV(s) == [t |-> "str", v |-> s]
IntV(n) == [t |-> "int", v |-> n]
BoolV(b) == [t |-> "bool", v |-> b]
FloatV(h) == [t |-> "float", v |-> h]

\* str(x) of a float counted in halves: 3 halves is "1.5"
FloatStr(h) ==
    DigitStr(h \div 2) \o <<".">> \o (IF h % 2 = 1 THEN <<"5">> ELSE <<"0">>)

\* The coercion loop of private_
Coerce(val) ==
    CASE val.t = "bool" ->
            StrV(IF val.v THEN <<"t","r","u","e">> ELSE <<"f","a","l","s","e">>)
      [] val.t = "float" -> StrV(FloatStr(val.v))
      [] OTHER -> val

\* Every parameter key, in sorted order
SortedKeys ==
    <<"api_key", "close_on_trigger", "coin", "order_id", "order_link_id",
      "order_type", "position_idx", "price", "qty", "reduce_only", "side",
      "sign", "symbol", "time_in_force", "timestamp">>

\* urlencode(sort_dict_keys(params)): the key-value pairs in key order
UrlEncodeSorted(params) ==
    LET keys == SelectSeq(SortedKeys, LAMBDA k : k \in DOMAIN params)
    IN  [i \in 1..Len(keys) |-> <<keys[i], params[keys[i]]>>]

\* hmac.new(secret, msg, sha256).hexdigest(), as an injective constructor
Hmac(secret, msg) == [alg |-> "HMAC-SHA256", secret |-> secret, msg |-> msg]

\* params after params.update(api_key, timestamp) and the coercion loop
WithAuth(params, ts) ==
    LET upd == DictSet(DictSet(params, "api_key", StrV(ApiKey)),
                       "timestamp", IntV(ts))
    IN  [k \in DOMAIN upd |-> Coerce(upd[k])]

\* The dict private_ leaves behind and sends: params with auth and sign
SignParams(params, ts) ==
    LET p == WithAuth(params, ts)
    IN  DictSet(p, "sign", StrV(Hmac(Secret, UrlEncodeSorted(p))))

\* A request as handed to the session
Request(method, url, params, ts) ==
    [method |-> method, url |-> url, params |-> SignParams(params, ts)]

-----------------------------------------------------------------------------
(* Position-side inference and open orders *)

\* A plausible slip: the close row of the buy side answers long
determine_pos_side_swapped(o) ==
    LET side == lower(o.side)
    IN  IF side = S_buy
        THEN IF Contains(o.order_link_id, S_entry) THEN "long"
             ELSE IF Contains(o.order_link_id, S_close) THEN "long"
             ELSE "unknown"
        ELSE IF Contains(o.order_link_id, S_entry) THEN "shrt"
             ELSE IF Contains(o.order_link_id, S_close) THEN "long"
             ELSE "both"

determine_pos_side(o) ==
    LET side == lower(o.side)
    IN  IF side = S_buy
        THEN IF Contains(o.order_link_id, S_entry) THEN "long"
             ELSE IF Contains(o.order_link_id, S_close) THEN "shrt"
             ELSE "unknown"
        ELSE IF Contains(o.order_link_id, S_entry) THEN "shrt"
             ELSE IF Contains(o.order_link_id, S_close) THEN "long"
             ELSE "both"

\* The order_link_id execute_order generates: custom_id, time suffix, random part
MakeLinkId(custom_id, ts, rnd) ==
    custom_id \o <<"_">> \o DigitStr(ts) \o <<"_">> \o DigitStr(rnd)

\* Custom ids of resting orders: this bot's two tags, a foreign tag, an id
\* carrying both tags, and the empty id of a manually placed order
LinkIds ==
    { MakeLinkId(S_entry, 0, 1),
      MakeLinkId(S_close, 1, 0),
      MakeLinkId(<<"t","p">>, 0, 0),
      MakeLinkId(S_close \o <<"_">> \o S_entry, 0, 0),
      <<>> }

IsDigit(c) == \E i \in 1..Len(DigitChars) : DigitChars[i] = c

DigitVal(c) == (CHOOSE i \in 1..Len(DigitChars) : DigitChars[i] = c) - 1

\* float(s) and parser.parse(s) succeed on a non-empty string of digits
IsNumeral(s) == Len(s) > 0 /\ \A i \in 1..Len(s) : IsDigit(s[i])

RECURSIVE ParseNum(_)
\* The number a string of digits denotes
ParseNum(s) ==
    IF Len(s) = 0 THEN 0
    ELSE 10 * ParseNum(SubSeq(s, 1, Len(s) - 1)) + DigitVal(s[Len(s)])

\* date_to_ts: the date string is a count of seconds written in digits
date_to_ts(date) == ParseNum(date) * 1000

\* The resting orders the vendor reports for a market type
VendorOrders(mt) ==
    { DictSet([order_id |-> "o1", order_link_id |-> l, symbol |-> symbol,
               price |-> 1, qty |-> 1, side |-> sd],
              EndpointsOf(mt).created_at_key, <<"1">>) :
        l \in LinkIds, sd \in {S_Buy, S_Sell} }

RECURSIVE SeqsUpTo(_, _)
\* Sequences over S of length at most n
SeqsUpTo(S, n) ==
    IF n = 0 THEN {<<>>}
    ELSE LET shorter == SeqsUpTo(S, n - 1)
         IN  shorter \cup {Append(q, x) : q \in shorter, x \in S}

\* One element of the list fetch_open_orders returns
NormalizeOrder(elm) ==
    [order_id |-> elm.order_id,
     custom_id |-> elm.order_link_id,
     symbol |-> elm.symbol,
     price |-> elm.price,
     qty |-> elm.qty,
     side |-> lower(elm.side),
     position_side |-> determine_pos_side(elm),
     timestamp |-> date_to_ts(elm[endpoints.created_at_key])]

-----------------------------------------------------------------------------
(* Order translation: execute_order and execute_cancellation *)

\* A plausible slip: the tail of the string keeps its case
first_capitalized_head_only(s) == <<UpperChar(s[1])>> \o Tail(s)

first_capitalized(s) == <<UpperChar(s[1])>> \o lower(Tail(s))

\* Order types of an intent: limit and market in several capitalizations
OrderTypes ==
    { <<"l","i","m","i","t">>, <<"L","I","M","I","T">>, S_Limit,
      <<"l","i","M","i","t">>, <<"m","a","r","k","e","t">>, S_Market }

\* Order intents; qty and price are counted in halves (3 is 1.5)
OrderIntents ==
    [side : {S_buy, S_sell},
     type : OrderTypes,
     qty : 1..(MaxSize + 1),
     price : 1..MaxPrice,
     position_side : {"long", "shrt"},
     custom_id : {S_entry, S_close}]

\* int(x) of a number counted in halves: whole units
IntOf(h) == h \div 2

\* The params dict execute_order builds before the call
OrderParams(order, mt, hedge, ts, rnd) ==
    LET base == [symbol |-> StrV(symbol),
                 side |-> StrV(first_capitalized(order.side)),
                 order_type |-> StrV(first_capitalized(order.type)),
                 qty |-> IF mt = "linear_perpetual"
                         THEN FloatV(order.qty) ELSE IntV(IntOf(order.qty)),
                 close_on_trigger |-> BoolV(FALSE)]
        reduce == BoolV(order.custom_id = S_close)
        idx == IF hedge
               THEN LET p == DictSet(base, "position_idx",
                                     IntV(IF order.position_side = "long" THEN 1 ELSE 2))
                    IN  IF mt = "linear_perpetual"
                        THEN DictSet(p, "reduce_only", reduce) ELSE p
               ELSE DictSet(DictSet(base, "position_idx", IntV(0)),
                            "reduce_only", reduce)
        tif == IF idx.order_type.v = S_Limit
               THEN DictSet(DictSet(idx, "time_in_force", StrV("PostOnly")),
                            "price", StrV(FloatStr(order.price)))
               ELSE DictSet(idx, "time_in_force", StrV("GoodTillCancel"))
    IN  DictSet(tif, "order_link_id",
                StrV(MakeLinkId(order.custom_id, ts, rnd)))

\* The vendor's answers to a create-order request: accepted (the order is
\* echoed, a market order priced by the vendor) or rejected (result null)
CreateResponses(params) ==
    { [ret_code |-> 0,
       result |-> <<[symbol |-> params.symbol.v,
                     side |-> params.side.v,
                     order_type |-> params.order_type.v,
                     qty |-> params.qty.v,
                     price |-> IF "price" \in DOMAIN params
                               THEN params.price.v ELSE <<"1">>]>>],
      [ret_code |-> 30076, result |-> <<>>] }

\* What execute_order returns for the vendor's answer o: the confirmation,
\* or the pair (o, order)
OrderResult(o, order) ==
    IF Len(o.result) > 0
    THEN [symbol |-> o.result[1].symbol,
          side |-> lower(o.result[1].side),
          position_side |-> order.position_side,
          type |-> lower(o.result[1].order_type),
          qty |-> o.result[1].qty,
          price |-> o.result[1].price]
    ELSE [o |-> o, order |-> order]

\* Resting orders handed to execute_cancellation
RestingOrders ==
    [order_id : {"o1"},
     side : {S_buy, S_sell},
     position_side : {"long", "shrt"},
     qty : 1..MaxSize,
     price : 1..MaxPrice]

\* The vendor's answers to a cancel request: cancelled, or order not found
CancelResponses(order) ==
    { [ret_code |-> 0, ret_msg |-> "OK", result |-> <<[order_id |-> order.order_id]>>],
      [ret_code |-> 20001, ret_msg |-> "order not exists or too late to cancel",
       result |-> <<>>] }

\* A plausible slip: the answer is checked the way execute_order checks it
CancellationResultChecked(o, order) ==
    IF Len(o.result) > 0
    THEN [symbol |-> symbol, side |-> order.side,
          position_side |-> order.position_side,
          qty |-> order.qty, price |-> order.price]
    ELSE [o |-> o, order |-> order]

\* What execute_cancellation returns for the vendor's answer o
CancellationResult(o, order) ==
    [symbol |-> symbol, side |-> order.side,
     position_side |-> order.position_side,
     qty |-> order.qty, price |-> order.price]

-----------------------------------------------------------------------------
(* Tick ingestion: fetch_ticks *)

TickKeys == {"id", "price", "qty", "time", "side"}

\* format_tick raises on a missing key or an unparsable number or date
FormatTickOk(tick) ==
    /\ TickKeys \subseteq DOMAIN tick
    /\ IsNumeral(tick.price)
    /\ IsNumeral(tick.qty)
    /\ IsNumeral(tick.time)

format_tick(tick) ==
    [trade_id |-> tick.id,
     price |-> ParseNum(tick.price),
     qty |-> ParseNum(tick.qty),
     timestamp |-> date_to_ts(tick.time),
     is_buyer_maker |-> (tick.side = S_Sell)]

\* Trade records of the vendor: two well-formed, two malformed
ValidTicks ==
    { [id |-> 41, price |-> <<"1","0">>, qty |-> <<"2">>, time |-> <<"1">>, side |-> S_Sell],
      [id |-> 42, price |-> <<"9">>, qty |-> <<"1">>, time |-> <<"2">>, side |-> S_Buy] }

MalformedTicks ==
    { [id |-> 43, price |-> <<"x">>, qty |-> <<"1">>, time |-> <<"3">>, side |-> S_Buy],
      [id |-> 44, price |-> <<"7">>, time |-> <<"3">>, side |-> S_Sell] }

TickRecords == ValidTicks \cup MalformedTicks

\* from_id: None is the empty sequence
FromIds == {<<>>, <<0 - 1>>, <<1>>}

\* The params dict of fetch_ticks
TickParams(from_id) ==
    LET base == [symbol |-> StrV(symbol), limit |-> IntV(1000)]
    IN  IF Len(from_id) > 0
        THEN DictSet(base, "from", IntV(IF from_id[1] > 0 THEN from_id[1] ELSE 0))
        ELSE base

\* What fetch_ticks returns: transport is "failed" when public_get raised,
\* otherwise batch is ticks['result']
TicksResult(transport, batch, do_print) ==
    IF transport = "failed" THEN <<>>
    ELSE IF \E i \in 1..Len(batch) : ~FormatTickOk(batch[i]) THEN <<>>
    ELSE IF do_print /\ Len(batch) = 0 THEN <<>>
    ELSE [i \in 1..Len(batch) |-> format_tick(batch[i])]

-----------------------------------------------------------------------------
(* Position reconciliation: fetch_position *)

\* One side of a position as the vendor reports it; sizes are magnitudes
VendorSides ==
    { [size |-> sz, entry_price |-> ep, leverage |-> 1, liq_price |-> ep] :
        sz \in 0..MaxSize, ep \in 0..MaxPrice }

WithField(r, k, v) == DictSet(r, k, v)

\* fetched['result'] of the position endpoint, per market type
VendorPositions(mt) ==
    CASE mt = "linear_perpetual" ->
            LET B == {WithField(r, "side", S_Buy) : r \in VendorSides}
                S == {WithField(r, "side", S_Sell) : r \in VendorSides}
            IN  {<<>>} \cup {<<b>> : b \in B} \cup {<<s>> : s \in S}
                \cup {<<b, s>> : b \in B, s \in S}
                \cup {<<s, b>> : b \in B, s \in S}
      [] mt = "inverse_perpetual" ->
            {WithField(r, "side", sd) : r \in VendorSides, sd \in {S_Buy, S_Sell}}
            \cup {WithField(r, "side", S_None) :
                    r \in {x \in VendorSides : x.size = 0 /\ x.entry_price = 0}}
      [] OTHER ->
            LET L == {[data |-> WithField(r, "position_idx", 1)] : r \in VendorSides}
                S == {[data |-> WithField(r, "position_idx", 2)] : r \in VendorSides}
            IN  {<<>>} \cup {<<l>> : l \in L} \cup {<<s>> : s \in S}
                \cup {<<l, s>> : l \in L, s \in S}
                \cup {<<s, l>> : l \in L, s \in S}

\* The vendor's state during one fetch_position
VendorStates(mt) ==
    [position : VendorPositions(mt), wallet : 0..MaxBalance]

\* The vendor's answer to a request, from its state
VendorAnswer(url, params, vendor) ==
    IF url = "/v2/private/wallet/balance"
    THEN [result |->
            [c \in (IF "coin" \in DOMAIN params
                    THEN {params.coin.v} ELSE {"BTC", "USD", "USDT"}) |->
                [wallet_balance |-> vendor.wallet]]]
    ELSE [result |-> vendor.position]

\* What calc_long_pnl and calc_shrt_pnl may return when they are called
PnlValues == {0 - 1, 2}

ZeroSide == [size |-> 0, entry_price |-> 0, leverage |-> 0, liq_price |-> 0]

\* A plausible slip: the short size keeps the vendor's sign
ShortSizeUnsigned(sz) == sz

\* -float(shrt_pos['size'])
ShortSize(sz) == 0 - sz

\* A plausible slip: the pricing function is consulted whatever the price
UpnlUnguarded(entry, pnl) == pnl

\* calc_..._pnl(...) if price != 0.0 else 0.0
Upnl(entry, pnl) == IF entry # 0 THEN pnl ELSE 0

\* The position dict built from the two raw sides and the balance
Reconcile(long_pos, shrt_pos, wallet, pnl) ==
    LET long == [size |-> long_pos.size,
                 price |-> long_pos.entry_price,
                 leverage |-> long_pos.leverage,
                 liquidation_price |-> long_pos.liq_price,
                 upnl |-> Upnl(long_pos.entry_price, pnl[1])]
        shrt == [size |-> ShortSize(shrt_pos.size),
                 price |-> shrt_pos.entry_price,
                 leverage |-> shrt_pos.leverage,
                 liquidation_price |-> shrt_pos.liq_price,
                 upnl |-> Upnl(shrt_pos.entry_price, pnl[2])]
    IN  [status |-> "ok",
         position |-> [long |-> long, shrt |-> shrt,
                       wallet_balance |-> wallet,
                       equity |-> wallet + (long.upnl + shrt.upnl)]]

Raised(e) == [status |-> e]

\* The body of fetch_position after the gather: the position, or the
\* exception the lookups raise
BuildPosition(mt, fetched, bal, pnl) ==
    IF mt = "linear_perpetual"
    THEN LET longs == SelectSeq(fetched.result, LAMBDA e : e.side = S_Buy)
             shrts == SelectSeq(fetched.result, LAMBDA e : e.side = S_Sell)
         IN  IF Len(longs) = 0 \/ Len(shrts) = 0 THEN Raised("IndexError")
             ELSE IF quot \notin DOMAIN bal.result THEN Raised("KeyError")
             ELSE Reconcile(longs[1], shrts[1],
                            bal.result[quot].wallet_balance, pnl)
    ELSE IF coin \notin DOMAIN bal.result THEN Raised("KeyError")
    ELSE LET wallet == bal.result[coin].wallet_balance
         IN  IF mt = "inverse_perpetual"
             THEN IF fetched.result.side = S_Buy
                  THEN Reconcile(fetched.result, ZeroSide, wallet, pnl)
                  ELSE Reconcile(ZeroSide, fetched.result, wallet, pnl)
             ELSE LET longs == SelectSeq(fetched.result,
                                         LAMBDA e : e.data.position_idx = 1)
                      shrts == SelectSeq(fetched.result,
                                         LAMBDA e : e.data.position_idx = 2)
                  IN  IF Len(longs) = 0 \/ Len(shrts) = 0
                      THEN Raised("IndexError")
                      ELSE Reconcile(longs[1].data, shrts[1].data, wallet, pnl)

\* A plausible slip: both calls are handed the same dict
ParamsDictShared(t) == 1

\* The dict a gathered call is handed: each call its own literal
ParamsDictOf(t) == t

\* The parameters fetch_position writes for its two calls
OwnParams(t) ==
    IF t = 1 THEN [symbol |-> StrV(symbol)]
    ELSE [coin |-> StrV(IF market_type = "linear_perpetual" THEN quot ELSE coin)]

-----------------------------------------------------------------------------
(* State machine *)

NoFetch == [active |-> FALSE]

Init ==
    /\ symbol \in Symbols
    /\ hedge_mode \in BOOLEAN
    /\ market_type = ""
    /\ inverse = FALSE
    /\ endpoints = EmptyDict
    /\ coin = ""
    /\ quot = ""
    /\ clock = 0
    /\ pc = "new"
    /\ fetch = NoFetch
    /\ last = [op |-> "__init__"]

\* _init up to and including init_market_type
init_market_type ==
    /\ pc = "new"
    /\ LET mt == ResolveMarketType(symbol)
           info == VendorSymbolInfo(symbol)
       IN  /\ market_type' = mt
           /\ inverse' = (mt # "linear_perpetual")
           /\ hedge_mode' = IF mt = "inverse_perpetual" THEN FALSE ELSE hedge_mode
           /\ endpoints' = EndpointsOf(mt)
           /\ coin' = info.base_currency
           /\ quot' = info.quote_currency
    /\ pc' = "idle"
    /\ last' = [op |-> "init_market_type"]
    /\ UNCHANGED <<symbol, clock, fetch>>

\* The wall clock advances, between operations and between the steps of
\* fetch_position
Tick ==
    /\ pc \in {"idle", "fetching"}
    /\ clock < MaxClock
    /\ clock' = clock + 1
    /\ UNCHANGED <<symbol, hedge_mode, market_type, inverse, endpoints, coin,
                   quot, pc, fetch, last>>

fetch_open_orders ==
    /\ pc = "idle"
    /\ \E fetched \in SeqsUpTo(VendorOrders(market_type), MaxOrders) :
          last' = [op |-> "fetch_open_orders",
                   req |-> Request("get", endpoints.open_orders,
                                   [symbol |-> StrV(symbol)], clock),
                   fetched |-> fetched,
                   ret |-> [i \in 1..Len(fetched) |-> NormalizeOrder(fetched[i])]]
    /\ pc' = "returned"
    /\ UNCHANGED <<symbol, hedge_mode, market_type, inverse, endpoints, coin,
                   quot, clock, fetch>>

execute_order ==
    /\ pc = "idle"
    /\ \E order \in OrderIntents, rnd \in 0..MaxRand :
          LET params == OrderParams(order, market_type, hedge_mode, clock, rnd)
          IN  \E o \in CreateResponses(params) :
                 last' = [op |-> "execute_order",
                          order |-> order,
                          params |-> params,
                          req |-> Request("post", endpoints.create_order,
                                          params, clock),
                          o |-> o,
                          ret |-> OrderResult(o, order)]
    /\ pc' = "returned"
    /\ UNCHANGED <<symbol, hedge_mode, market_type, inverse, endpoints, coin,
                   quot, clock, fetch>>

execute_cancellation ==
    /\ pc = "idle"
    /\ \E order \in RestingOrders :
          \E o \in CancelResponses(order) :
             last' = [op |-> "execute_cancellation",
                      order |-> order,
                      req |-> Request("post", endpoints.cancel_order,
                                      [symbol |-> StrV(symbol),
                                       order_id |-> StrV(order.order_id)],
                                      clock),
                      o |-> o,
                      ret |-> CancellationResult(o, order)]
    /\ pc' = "returned"
    /\ UNCHANGED <<symbol, hedge_mode, market_type, inverse, endpoints, coin,
                   quot, clock, fetch>>

fetch_ticks ==
    /\ pc = "idle"
    /\ \E from_id \in FromIds, do_print \in BOOLEAN,
          transport \in {"ok", "failed"},
          batch \in SeqsUpTo(TickRecords, MaxBatch) :
          /\ transport = "failed" => batch = <<>>
          /\ last' = [op |-> "fetch_ticks",
                      url |-> endpoints.ticks,
                      params |-> TickParams(from_id),
                      do_print |-> do_print,
                      transport |-> transport,
                      batch |-> batch,
                      ret |-> TicksResult(transport, batch, do_print)]
    /\ pc' = "returned"
    /\ UNCHANGED <<symbol, hedge_mode, market_type, inverse, endpoints, coin,
                   quot, clock, fetch>>

\* fetch_position up to the gather: the two calls are created
fetch_position_start ==
    /\ pc = "idle"
    /\ \E vendor \in VendorStates(market_type) :
          fetch' = [active |-> TRUE,
                    vendor |-> vendor,
                    dicts |-> [t \in 1..2 |-> OwnParams(t)],
                    tasks |-> [t \in 1..2 |->
                                 [pc |-> "ready",
                                  url |-> IF t = 1 THEN endpoints.position
                                          ELSE endpoints.balance,
                                  req |-> <<>>,
                                  resp |-> <<>>]]]
    /\ pc' = "fetching"
    /\ last' = [op |-> "fetch_position_start"]
    /\ UNCHANGED <<symbol, hedge_mode, market_type, inverse, endpoints, coin,
                   quot, clock>>

\* private_ of call t up to its await: the dict is updated and signed in
\* place and handed to the session
private_send(t) ==
    /\ pc = "fetching"
    /\ fetch.tasks[t].pc = "ready"
    /\ LET d == ParamsDictOf(t)
           signed == SignParams(fetch.dicts[d], clock)
       IN  fetch' = [fetch EXCEPT
                       !.dicts[d] = signed,
                       !.tasks[t].pc = "sent",
                       !.tasks[t].req = <<[method |-> "get",
                                           url |-> fetch.tasks[t].url,
                                           params |-> signed,
                                           ts |-> clock]>>]
    /\ UNCHANGED <<symbol, hedge_mode, market_type, inverse, endpoints, coin,
                   quot, clock, pc, last>>

\* The vendor's answer to call t arrives
private_receive(t) ==
    /\ pc = "fetching"
    /\ fetch.tasks[t].pc = "sent"
    /\ fetch' = [fetch EXCEPT
                   !.tasks[t].pc = "done",
                   !.tasks[t].resp = <<VendorAnswer(fetch.tasks[t].url,
                                                    fetch.tasks[t].req[1].params,
                                                    fetch.vendor)>>]
    /\ UNCHANGED <<symbol, hedge_mode, market_type, inverse, endpoints, coin,
                   quot, clock, pc, last>>

\* Both calls have completed: the gather returns and the position is built
fetch_position_join ==
    /\ pc = "fetching"
    /\ \A t \in 1..2 : fetch.tasks[t].pc = "done"
    /\ \E pnl \in PnlValues \X PnlValues :
          last' = [op |-> "fetch_position",
                   vendor |-> fetch.vendor,
                   fetched |-> fetch.tasks[1].resp[1],
                   bal |-> fetch.tasks[2].resp[1],
                   pnl |-> pnl,
                   out |-> BuildPosition(market_type, fetch.tasks[1].resp[1],
                                         fetch.tasks[2].resp[1], pnl)]
    /\ fetch' = NoFetch
    /\ pc' = "returned"
    /\ UNCHANGED <<symbol, hedge_mode, market_type, inverse, endpoints, coin,
                   quot, clock>>

\* The caller takes the outcome of the completed operation
Return ==
    /\ pc = "returned"
    /\ pc' = "idle"
    /\ last' = [op |-> "none"]
    /\ UNCHANGED <<symbol, hedge_mode, market_type, inverse, endpoints, coin,
                   quot, clock, fetch>>

Next ==
    \/ init_market_type
    \/ Tick
    \/ fetch_open_orders
    \/ execute_order
    \/ execute_cancellation
    \/ fetch_ticks
    \/ fetch_position_start
    \/ \E t \in 1..2 : private_send(t)
    \/ \E t \in 1..2 : private_receive(t)
    \/ fetch_position_join
    \/ Return

Spec == Init /\ [][Next]_vars

-----------------------------------------------------------------------------
(* Properties *)

EndpointNames ==
    {"position", "open_orders", "create_order", "cancel_order", "ticks",
     "websocket", "created_at_key", "balance"}

\* C1: once init_market_type has run, a symbol ending in "USDT" is linear
\* perpetual, one ending in "USD" and not in "USDT" is inverse perpetual, every
\* other symbol is inverse futures; the endpoint set is the one of that market
\* type and holds the eight logical operations.
C1_MarketTypeBySuffix ==
    pc # "new" =>
        LET n == Len(symbol)
            usdt == n >= 4 /\ <<symbol[n - 3], symbol[n - 2], symbol[n - 1], symbol[n]>>
                                  = <<"U","S","D","T">>
            usd == n >= 3 /\ <<symbol[n - 2], symbol[n - 1], symbol[n]>>
                                  = <<"U","S","D">>
        IN  /\ usdt => market_type = "linear_perpetual"
            /\ (usd /\ ~usdt) => market_type = "inverse_perpetual"
            /\ (~usd /\ ~usdt) => market_type = "inverse_futures"
            /\ DOMAIN endpoints = EndpointNames
            /\ endpoints.balance = "/v2/private/wallet/balance"
            /\ market_type = "linear_perpetual" =>
                  endpoints = DictSet(LinearEndpoints, "balance", endpoints.balance)
            /\ market_type = "inverse_perpetual" =>
                  endpoints = DictSet(InversePerpetualEndpoints, "balance", endpoints.balance)
            /\ market_type = "inverse_futures" =>
                  endpoints = DictSet(InverseFuturesEndpoints, "balance", endpoints.balance)

\* A symbol that holds "USDT" but ends in "USD" has been resolved
C1_Witness ==
    /\ pc # "new"
    /\ symbol = S_USDT \o S_USD
    /\ market_type = "inverse_perpetual"
    /\ endpoints.position = "/v2/private/position/list"

\* C2: every resting order's position side follows the table buy+entry -> long,
\* buy+close -> shrt, sell+entry -> shrt, sell+close -> long, and an id with
\* neither tag yields the sentinel "unknown" or "both"; every order of the
\* vendor's list is normalized (no error).
C2_PosSideTable ==
    last.op = "fetch_open_orders" =>
        /\ Len(last.ret) = Len(last.fetched)
        /\ \A i \in 1..Len(last.fetched) :
              LET elm == last.fetched[i]
                  buy == elm.side = S_Buy
                  entry == Contains(elm.order_link_id, S_entry)
                  close == Contains(elm.order_link_id, S_close)
                  ps == last.ret[i].position_side
              IN  /\ (buy /\ entry /\ ~close) => ps = "long"
                  /\ (buy /\ close /\ ~entry) => ps = "shrt"
                  /\ (~buy /\ entry /\ ~close) => ps = "shrt"
                  /\ (~buy /\ close /\ ~entry) => ps = "long"
                  /\ (~entry /\ ~close) => ps \in {"unknown", "both"}

\* A Buy order tagged close has been normalized to the short side
C2_Witness ==
    /\ last.op = "fetch_open_orders"
    /\ Len(last.ret) >= 1
    /\ last.fetched[1].side = S_Buy
    /\ last.fetched[1].order_link_id = MakeLinkId(S_close, 1, 0)
    /\ last.ret[1].position_side = "shrt"

\* C3: every position fetch_position returns has long.size >= 0 and
\* shrt.size <= 0; the short size is the negated vendor magnitude and the side
\* an inverse-perpetual answer does not carry has size 0.
C3_SizeSigns ==
    (last.op = "fetch_position" /\ last.out.status = "ok") =>
        LET pos == last.out.position
            raw == last.vendor.position
        IN  /\ pos.long.size >= 0
            /\ pos.shrt.size =< 0
            /\ market_type = "inverse_perpetual" =>
                  IF raw.side = S_Buy
                  THEN pos.long.size = raw.size /\ pos.shrt.size = 0
                  ELSE pos.long.size = 0 /\ pos.shrt.size = 0 - raw.size
            /\ market_type = "linear_perpetual" =>
                  \E i \in 1..Len(raw) :
                     raw[i].side = S_Sell /\ pos.shrt.size = 0 - raw[i].size
            /\ market_type = "inverse_futures" =>
                  \E i \in 1..Len(raw) :
                     raw[i].data.position_idx = 2
                     /\ pos.shrt.size = 0 - raw[i].data.size

\* An inverse-perpetual fetch that answered only the Sell side has returned
C3_Witness ==
    /\ last.op = "fetch_position"
    /\ last.out.status = "ok"
    /\ market_type = "inverse_perpetual"
    /\ last.vendor.position.side = S_Sell
    /\ last.out.position.shrt.size < 0
    /\ last.out.position.long.size = 0

\* The normalized ticks of the well-formed records of a batch
ValidTicksOf(batch) ==
    LET ok == SelectSeq(batch, FormatTickOk)
    IN  [i \in 1..Len(ok) |-> format_tick(ok[i])]

\* C4: a fetched batch with exactly one malformed record yields the normalized
\* ticks of its well-formed records.
C4_OneMalformedIsolated ==
    (/\ last.op = "fetch_ticks"
     /\ last.transport = "ok"
     /\ Cardinality({i \in 1..Len(last.batch) : ~FormatTickOk(last.batch[i])}) = 1)
        => last.ret = ValidTicksOf(last.batch)

\* C5: the value returned on a transport failure differs from the value
\* returned for a fetch that succeeded with no ticks and from the value
\* returned for a batch whose records are all malformed.
C5_OutcomesDistinct ==
    (last.op = "fetch_ticks" /\ last.transport = "failed") =>
        /\ last.ret # TicksResult("ok", <<>>, last.do_print)
        /\ \A m \in MalformedTicks :
              last.ret # TicksResult("ok", <<m>>, last.do_print)

\* C6: when the vendor answers "order not found", execute_cancellation returns
\* the record {symbol, side, position_side, qty, price} of the submitted order.
C6_NotFoundIsSuccess ==
    (last.op = "execute_cancellation" /\ Len(last.o.result) = 0) =>
        /\ DOMAIN last.ret = {"symbol", "side", "position_side", "qty", "price"}
        /\ last.ret.symbol = symbol
        /\ last.ret.side = last.order.side
        /\ last.ret.position_side = last.order.position_side
        /\ last.ret.qty = last.order.qty
        /\ last.ret.price = last.order.price

\* A cancellation the vendor answered with "order not found" has returned
C6_Witness ==
    /\ last.op = "execute_cancellation"
    /\ last.o.ret_code = 20001
    /\ Len(last.o.result) = 0
    /\ last.ret.side = S_sell
    /\ last.req.url = endpoints.cancel_order

\* C7: in inverse futures, a position index missing from the vendor's answer
\* yields the zero-size placeholder for that side, not a failed lookup.
C7_MissingIndexPlaceholder ==
    (/\ last.op = "fetch_position"
     /\ market_type = "inverse_futures"
     /\ \E idx \in 1..2 :
           \A i \in 1..Len(last.fetched.result) :
              last.fetched.result[i].data.position_idx # idx)
        =>
        /\ last.out.status = "ok"
        /\ \A i \in 1..Len(last.fetched.result) :
              last.fetched.result[i].data.position_idx # 1
           => /\ last.out.position.long.size = 0
              /\ last.out.position.long.price = 0
              /\ last.out.position.long.leverage = 0
              /\ last.out.position.long.liquidation_price = 0
        /\ \A i \in 1..Len(last.fetched.result) :
              last.fetched.result[i].data.position_idx # 2
           => /\ last.out.position.shrt.size = 0
              /\ last.out.position.shrt.price = 0
              /\ last.out.position.shrt.leverage = 0
              /\ last.out.position.shrt.liquidation_price = 0

\* C8: every returned position has equity = wallet_balance + long.upnl +
\* shrt.upnl, and a side whose entry price is 0 has upnl 0.
C8_Equity ==
    (last.op = "fetch_position" /\ last.out.status = "ok") =>
        LET pos == last.out.position
        IN  /\ pos.equity = pos.wallet_balance + pos.long.upnl + pos.shrt.upnl
            /\ pos.long.price = 0 => pos.long.upnl = 0
            /\ pos.shrt.price = 0 => pos.shrt.upnl = 0

\* A position with an unpriced long side and a priced short side has returned
C8_Witness ==
    /\ last.op = "fetch_position"
    /\ last.out.status = "ok"
    /\ last.out.position.long.price = 0
    /\ last.out.position.long.upnl = 0
    /\ last.out.position.shrt.price # 0
    /\ last.out.position.shrt.upnl # 0
    /\ last.out.position.equity # last.out.position.wallet_balance

\* C9: the create-order request carries PostOnly and a price when the intent's
\* type is limit in any capitalization, and GoodTillCancel and no price
\* otherwise.
C9_TimeInForce ==
    last.op = "execute_order" =>
        LET p == last.req.params
            limit == /\ Len(last.order.type) = 5
                     /\ \A i \in 1..5 :
                           last.order.type[i] \in
                              {<<"l","i","m","i","t">>[i], <<"L","I","M","I","T">>[i]}
        IN  IF limit
            THEN p.time_in_force = StrV("PostOnly") /\ "price" \in DOMAIN p
            ELSE p.time_in_force = StrV("GoodTillCancel") /\ "price" \notin DOMAIN p

\* A limit order whose type came in mixed case has been sent
C9_Witness ==
    /\ last.op = "execute_order"
    /\ last.order.type = <<"l","i","M","i","t">>
    /\ last.req.params.time_in_force = StrV("PostOnly")
    /\ last.req.params.price = StrV(FloatStr(last.order.price))

\* The position a sequential run builds from the vendor state v
SequentialPosition(v, pnl) ==
    LET fetched == VendorAnswer(endpoints.position,
                                SignParams([symbol |-> StrV(symbol)], 0), v)
        bal == VendorAnswer(endpoints.balance,
                            SignParams([coin |-> StrV(IF market_type = "linear_perpetual"
                                                      THEN quot ELSE coin)], 0), v)
    IN  BuildPosition(market_type, fetched, bal, pnl)

\* Each request in flight is signed over its own parameters, and a returned
\* position is the one a sequential run builds
C10_Requests ==
    /\ pc = "fetching" =>
          \A t \in 1..2 :
             Len(fetch.tasks[t].req) > 0 =>
                LET r == fetch.tasks[t].req[1]
                    own == IF t = 1 THEN {"symbol"} ELSE {"coin"}
                IN  /\ DOMAIN r.params = own \cup {"api_key", "timestamp", "sign"}
                    /\ r.params.timestamp = IntV(r.ts)
                    /\ r.params.sign =
                          StrV(Hmac(Secret,
                                    UrlEncodeSorted(
                                       [k \in own \cup {"api_key", "timestamp"} |->
                                          r.params[k]])))
    /\ last.op = "fetch_position" =>
          /\ last.fetched = [result |-> last.vendor.position]
          /\ last.out = SequentialPosition(last.vendor, last.pnl)

\* C10: in every interleaving of the two gathered calls each request is signed
\* over its own parameters (with api_key and its timestamp) only, the result
\* is built only once both calls are done, and it is the position a
\* sequential run builds.
C10_GatherIndependent ==
    /\ []C10_Requests
    /\ [][last'.op = "fetch_position" =>
            /\ pc = "fetching"
            /\ \A t \in 1..2 : fetch.tasks[t].pc = "done"
            /\ last'.fetched = fetch.tasks[1].resp[1]
            /\ last'.bal = fetch.tasks[2].resp[1]]_vars

\* The balance call was sent and answered before the position call was signed,
\* at a later time
C10_Witness ==
    /\ pc = "fetching"
    /\ fetch.tasks[2].pc = "done"
    /\ fetch.tasks[1].pc = "sent"
    /\ fetch.tasks[2].req[1].ts < fetch.tasks[1].req[1].ts
    /\ "symbol" \in DOMAIN fetch.tasks[1].req[1].params

====
